---- MODULE Spec2Model ----
(***************************************************************************)
(* Model of src/main.py: the Plunk event logger.  One HTTP invocation of   *)
(* plunk_event_logger fetches the provider's latest events, merges them    *)
(* into the BigQuery table, computes bounce metrics with four queries,     *)
(* decides the alerts and mails the report to every configured recipient.  *)
(* Runs are serialized: a new request is taken only after the previous one *)
(* returned.                                                               *)
(***************************************************************************)
EXTENDS Integers, Sequences, FiniteSets, Bags, TLC

VARIABLES
  plunk_key,     \* os.environ PLUNK_API_KEY / PLUNK_BEARER_TOKEN ("" when unset)
  recipients,    \* ALERT_EMAIL_RECIPIENTS: the configured list, blanks included
  bq_client,     \* the global bq_client: TRUE once get_bq_client created it
  store,         \* the rows of table BQ_TABLE_EVENTS, a bag (a table has no key)
  now,           \* CURRENT_TIMESTAMP() of the warehouse, in minutes
  pc,            \* position of the running invocation of plunk_event_logger
  events,        \* the batch returned by fetch_plunk_events
  row_7d,        \* result row of query_7d
  row_all,       \* result row of query_all
  bounces,       \* result of query_bounces
  metrics,       \* the dict returned by calculate_bounce_metrics
  alerts,        \* the alerts list of plunk_event_logger
  body_text,     \* the report rendered by send_alert_email
  idx,           \* position of the recipient loop in send_alert_email
  calls,         \* the external requests/statements issued by the current run, in order
  response       \* what the invocation returned: <<body, status>>

vars == <<plunk_key, recipients, bq_client, store, now, pc, events, row_7d, row_all, bounces,
          metrics, alerts, body_text, idx, calls, response>>

----------------------------------------------------------------------------
\* Bounds of the model.

\* longest batch the provider returns in one call
MaxBatch == 2
\* longest configured recipient list
MaxRecipients == 2
\* how many minutes the clock may advance during the checked runs
MaxClock == 1
\* largest sent count drawn for a metrics snapshot given directly to the decision engine
MaxSent == 20
\* largest bounced count drawn for such a snapshot
MaxBounced == 2

----------------------------------------------------------------------------
\* Values.

\* Python's None / SQL NULL for a scalar
NULL == "<null>"

\* a JSON null where an object is expected ("data": null)
JNull == [json_null |-> "null"]

\* INTERVAL 7 DAY and INTERVAL 16 MINUTE, in minutes
Window7d == 10080
Window16m == 16

\* LIMIT of query_bounces
BouncesLimit == 20

\* timestamps of the rows of larger tables: Stamps[1] is T2, each next one is
\* StampStep minutes earlier
Stamps ==
  <<"S01", "S02", "S03", "S04", "S05", "S06", "S07", "S08", "S09", "S10", "S11", "S12", "S13", "S14",
    "S15", "S16", "S17", "S18", "S19", "S20", "S21", "S22", "S23", "S24", "S25", "S26">>

StampStep == 8

\* the position of a timestamp in Stamps
StampIndex(ts) == CHOOSE i \in 1..Len(Stamps) : Stamps[i] = ts

\* The instant a TIMESTAMP string denotes, in minutes.  T0 is exactly 7 days, T1 exactly 16 minutes before T2.
Instant(ts) ==
  CASE ts = "T0" -> 0
    [] ts = "T1" -> Window7d - Window16m
    [] ts = "T2" -> Window7d
    [] OTHER -> Window7d - StampStep * (StampIndex(ts) - 1)

\* the clock at the first run
Now0 == Instant("T2")

\* e.get(k): the value under k, None when the key is missing
Get(e, k) == IF k \in DOMAIN e THEN e[k] ELSE NULL

\* e.get(k, {}): the object under k, {} when the key is missing (a present
\* null is returned as it is)
GetObj(e, k) == IF k \in DOMAIN e THEN e[k] ELSE <<>>

\* Raw provider records.  Two ids; for each a "sent" and a "bounce" record
\* that differ in every field, a record without nested objects, and records
\* whose nested object is null.
RawE1Sent ==
  [id |-> "e1", name |-> "email.sent", projectId |-> "p1", contactId |-> "c1",
   emailId |-> "m1", createdAt |-> "T0",
   data |-> [from |-> "f1", subject |-> "s1", templateId |-> "tp1", messageId |-> "g1"],
   contact |-> [email |-> "x1"]]

RawE1Bounce ==
  [id |-> "e1", name |-> "email.bounce", projectId |-> "p2", contactId |-> "c2",
   emailId |-> "m1", createdAt |-> "T2",
   data |-> [from |-> "f2", subject |-> "s2", templateId |-> "tp2", messageId |-> "g2",
             bouncedAt |-> "T2", bounceType |-> "hard"],
   contact |-> [email |-> "x2"]]

RawE2Sent ==
  [id |-> "e2", name |-> "email.sent", projectId |-> "p1", contactId |-> "c1",
   emailId |-> "m1", createdAt |-> "T1"]

RawE2Bounce ==
  [id |-> "e2", name |-> "email.bounce", projectId |-> "p2", contactId |-> "c2",
   emailId |-> "m2", createdAt |-> "T2",
   data |-> [subject |-> "s2", bouncedAt |-> "T1", bounceType |-> "soft"],
   contact |-> [email |-> "x2"]]

RawE2NullData ==
  [id |-> "e2", name |-> "email.sent", projectId |-> "p1", contactId |-> "c1",
   emailId |-> "m2", createdAt |-> "T2", data |-> JNull, contact |-> [email |-> "x1"]]

RawEvents == {RawE1Sent, RawE1Bounce, RawE2Sent, RawE2Bounce, RawE2NullData}

\* the batches resp.json().get("events", []) can be
Batches == UNION {[1..n -> RawEvents] : n \in 0..MaxBatch}

----------------------------------------------------------------------------
\* upsert_events_to_bq

\* json.dumps(e): the serialized payload
JsonDumps(e) == [json |-> e]

\* data_obj.get / contact_obj.get raise AttributeError when the object is None
NormalizeRaises(e) ==
  \/ "json_null" \in DOMAIN GetObj(e, "data")
  \/ "json_null" \in DOMAIN GetObj(e, "contact")

\* the StructQueryParameter built for one event
Normalize(e) ==
  LET data_obj == GetObj(e, "data")
      contact_obj == GetObj(e, "contact")
  IN [id |-> Get(e, "id"),
      name |-> Get(e, "name"),
      project_id |-> Get(e, "projectId"),
      contact_id |-> Get(e, "contactId"),
      email_id |-> Get(e, "emailId"),
      created_at |-> Get(e, "createdAt"),
      timestamp |-> Get(e, "createdAt"),
      data_from |-> Get(data_obj, "from"),
      data_subject |-> Get(data_obj, "subject"),
      data_template_id |-> Get(data_obj, "templateId"),
      data_message_id |-> Get(data_obj, "messageId"),
      data_bounced_at |-> Get(data_obj, "bouncedAt"),
      data_bounce_type |-> Get(data_obj, "bounceType"),
      contact_email |-> Get(contact_obj, "email"),
      raw_json |-> JsonDumps(e)]

\* params: one row per event, in batch order
Params(evs) == [i \in 1..Len(evs) |-> Normalize(evs[i])]

\* MergeOn with the join written on the wrong source column (ON T.id = S.email_id)
MergeOnEmailId(t, s) == t.id # NULL /\ s.email_id # NULL /\ t.id = s.email_id

\* ON T.id = S.id (NULL never equals anything)
MergeOn(t, s) == t.id # NULL /\ s.id # NULL /\ t.id = s.id

\* MergeUpdate overwriting the whole row with the source row (UPDATE SET of every column)
MergeUpdateAllColumns(t, s) == s

\* WHEN MATCHED THEN UPDATE SET ...
MergeUpdate(t, s) ==
  [t EXCEPT !.name = s.name,
            !.contact_id = s.contact_id,
            !.email_id = s.email_id,
            !.data_bounced_at = s.data_bounced_at,
            !.data_bounce_type = s.data_bounce_type,
            !.raw_json = s.raw_json]

\* WHEN NOT MATCHED THEN INSERT (...) VALUES (...)
MergeInsert(s) ==
  [id |-> s.id, name |-> s.name, project_id |-> s.project_id,
   contact_id |-> s.contact_id, email_id |-> s.email_id,
   created_at |-> s.created_at, timestamp |-> s.timestamp,
   data_from |-> s.data_from, data_subject |-> s.data_subject,
   data_template_id |-> s.data_template_id, data_message_id |-> s.data_message_id,
   data_bounced_at |-> s.data_bounced_at, data_bounce_type |-> s.data_bounce_type,
   contact_email |-> s.contact_email, raw_json |-> s.raw_json]

\* the source rows joined to target row t
SourcesOf(t, S) == {i \in 1..Len(S) : MergeOn(t, S[i])}

\* BigQuery refuses a MERGE in which a target row is matched by more than
\* one source row ("UPDATE/MERGE must match at most one source row for each
\* target row"); the statement then changes nothing.
MergeRaises(T, S) == \E t \in BagToSet(T) : Cardinality(SourcesOf(t, S)) > 1

\* the target row after the statement
MergedRow(t, S) ==
  IF SourcesOf(t, S) = {} THEN t
  ELSE MergeUpdate(t, S[CHOOSE i \in SourcesOf(t, S) : TRUE])

\* the bag of rows r2 with as many copies as T has rows that become r2
UpdatedRows(T, S) ==
  LET old == BagToSet(T)
      new == {MergedRow(t, S) : t \in old}
  IN [r2 \in new |->
        BagCardinality([t \in {u \in old : MergedRow(u, S) = r2} |-> T[t]])]

\* the source rows no target row matches, each inserted
RECURSIVE InsertedRows(_, _, _)
InsertedRows(T, S, i) ==
  IF i > Len(S) THEN EmptyBag
  ELSE LET rest == InsertedRows(T, S, i + 1)
       IN IF \E t \in BagToSet(T) : MergeOn(t, S[i])
          THEN rest
          ELSE rest (+) SetToBag({MergeInsert(S[i])})

\* Merge with a third clause, WHEN NOT MATCHED BY SOURCE THEN DELETE: the
\* target rows no source row matches are removed
MergeDeleteUnmatched(T, S) ==
  LET kept == {t \in BagToSet(T) : SourcesOf(t, S) # {}}
  IN UpdatedRows([t \in kept |-> T[t]], S) (+) InsertedRows(T, S, 1)

\* Merge as a plain insert of every source row (no MERGE, rows appended)
MergeAppendOnly(T, S) ==
  T (+) [r \in {S[i] : i \in 1..Len(S)} |-> Cardinality({i \in 1..Len(S) : S[i] = r})]

\* the table after MERGE T USING UNNEST(@events) S
Merge(T, S) == UpdatedRows(T, S) (+) InsertedRows(T, S, 1)

\* the exception upsert_events_to_bq raises on this batch by itself, if any
UpsertError(T, evs) ==
  IF evs = <<>> THEN NULL
  ELSE IF \E i \in 1..Len(evs) : NormalizeRaises(evs[i])
       THEN "'NoneType' object has no attribute 'get'"
  ELSE IF MergeRaises(T, Params(evs))
       THEN "UPDATE/MERGE must match at most one source row for each target row"
  ELSE NULL

\* the table after upsert_events_to_bq(events) returned or raised
upsert_events_to_bq(T, evs) ==
  IF evs = <<>> \/ UpsertError(T, evs) # NULL THEN T
  ELSE Merge(T, Params(evs))

----------------------------------------------------------------------------
\* calculate_bounce_metrics

\* timestamp >= TIMESTAMP_SUB(CURRENT_TIMESTAMP(), INTERVAL w): NULL is never >=
InWindow(r, t, w) == r.timestamp # NULL /\ Instant(r.timestamp) >= t - w

\* CountDistinctSince as COUNT(email_id): every row counts, not every mail
CountRowsSince(T, nm, t, w) ==
  BagCardinality([r \in {x \in BagToSet(T) :
      x.name = nm /\ x.email_id # NULL /\ InWindow(x, t, w)} |-> T[r]])

\* COUNT(DISTINCT email_id) ... WHERE name = nm AND timestamp >= t - w
CountDistinctSince(T, nm, t, w) ==
  Cardinality({r.email_id : r \in {x \in BagToSet(T) :
      x.name = nm /\ x.email_id # NULL /\ InWindow(x, t, w)}})

\* COUNT(DISTINCT email_id) ... WHERE name = nm
CountDistinctAll(T, nm) ==
  Cardinality({r.email_id : r \in {x \in BagToSet(T) :
      x.name = nm /\ x.email_id # NULL}})

\* the row query_7d returns at time t
Query7d(T, t) ==
  [sent_count |-> CountDistinctSince(T, "email.sent", t, Window7d),
   bounced_count |-> CountDistinctSince(T, "email.bounce", t, Window7d)]

\* the row query_all returns
QueryAll(T) ==
  [sent_count |-> CountDistinctAll(T, "email.sent"),
   bounced_count |-> CountDistinctAll(T, "email.bounce")]

\* Query16m with INTERVAL 16 DAY in place of INTERVAL 16 MINUTE
Query16Days(T, t) == CountDistinctSince(T, "email.bounce", t, 16 * 1440)

\* cnt of query_16m at time t
Query16m(T, t) == CountDistinctSince(T, "email.bounce", t, Window16m)

\* OrderKey of ORDER BY timestamp ASC: the oldest rows come first
OrderKeyAscending(r) == IF r.timestamp = NULL THEN 1 ELSE - Instant(r.timestamp)

\* ORDER BY timestamp DESC: NULL sorts below every instant
OrderKey(r) == IF r.timestamp = NULL THEN -1 ELSE Instant(r.timestamp)

\* every ordering of the rows of bag B by timestamp descending (ties in any order)
RECURSIVE OrderedDesc(_)
OrderedDesc(B) ==
  IF BagToSet(B) = {} THEN {<<>>}
  ELSE LET top == {r \in BagToSet(B) : \A x \in BagToSet(B) : OrderKey(x) <= OrderKey(r)}
       IN UNION {{<<r>> \o rest : rest \in OrderedDesc(B (-) SetToBag({r}))} : r \in top}

\* SELECT contact_email, data_subject, data_bounced_at
BounceColumns(r) ==
  [contact_email |-> r.contact_email, data_subject |-> r.data_subject,
   data_bounced_at |-> r.data_bounced_at]

\* the bounce rows of the table
BounceRows(T) ==
  LET keep == {r \in BagToSet(T) : r.name = "email.bounce"}
  IN [r \in keep |-> T[r]]

Min(a, b) == IF a <= b THEN a ELSE b

\* the results query_bounces can return
QueryBounces(T) ==
  {[i \in 1..Min(Len(o), BouncesLimit) |-> BounceColumns(o[i])] : o \in OrderedDesc(BounceRows(T))}

\* Rate without the "if sent > 0" guard: the division is made for every sent
RateUnguarded(sent, bounced) == [num |-> bounced, den |-> sent]

\* (bounced / sent) if sent > 0 else 0.0, as a fraction
Rate(sent, bounced) ==
  IF sent > 0 THEN [num |-> bounced, den |-> sent] ELSE [num |-> 0, den |-> 1]

\* the dict calculate_bounce_metrics returns
MetricsOf(r7, rall, bs, b16) ==
  [d7 |-> [sent |-> r7.sent_count, bounced |-> r7.bounced_count,
           rate |-> Rate(r7.sent_count, r7.bounced_count)],
   all |-> [sent |-> rall.sent_count, bounced |-> rall.bounced_count,
            rate |-> Rate(rall.sent_count, rall.bounced_count)],
   recent_bounces |-> bs,
   recent_bounces_16m_count |-> b16]

----------------------------------------------------------------------------
\* plunk_event_logger: thresholds and alert decision

\* thresholds, in thousandths
BOUNCE_RATE_7D_WARNING == 50
BOUNCE_RATE_7D_CRITICAL == 75
BOUNCE_RATE_ALL_TIME_WARNING == 40
BOUNCE_RATE_ALL_TIME_CRITICAL == 60

\* rate > threshold
RateAbove(rate, thousandths) == rate.num * 1000 > thousandths * rate.den

\* the rate as "{rate:.2%}" shows it: hundredths of a percent, rounded
Pct2(rate) == (20000 * rate.num + rate.den) \div (2 * rate.den)

\* one alert line
AlertLine(sev, axis, shown, thr) ==
  [severity |-> sev, axis |-> axis, shown |-> shown, threshold |-> thr]

\* Alerts7d with the warning test written as a second "if": both lines are appended
Alerts7dBothIfs(m) ==
  (IF RateAbove(m.d7.rate, BOUNCE_RATE_7D_CRITICAL)
   THEN <<AlertLine("CRITICAL", "7-Day", Pct2(m.d7.rate), BOUNCE_RATE_7D_CRITICAL)>>
   ELSE <<>>)
  \o (IF RateAbove(m.d7.rate, BOUNCE_RATE_7D_WARNING)
      THEN <<AlertLine("WARNING", "7-Day", Pct2(m.d7.rate), BOUNCE_RATE_7D_WARNING)>>
      ELSE <<>>)

\* the 7-day check
Alerts7d(m) ==
  IF RateAbove(m.d7.rate, BOUNCE_RATE_7D_CRITICAL)
  THEN <<AlertLine("CRITICAL", "7-Day", Pct2(m.d7.rate), BOUNCE_RATE_7D_CRITICAL)>>
  ELSE IF RateAbove(m.d7.rate, BOUNCE_RATE_7D_WARNING)
  THEN <<AlertLine("WARNING", "7-Day", Pct2(m.d7.rate), BOUNCE_RATE_7D_WARNING)>>
  ELSE <<>>

\* the all-time check
AlertsAllTime(m) ==
  IF RateAbove(m.all.rate, BOUNCE_RATE_ALL_TIME_CRITICAL)
  THEN <<AlertLine("CRITICAL", "All-Time", Pct2(m.all.rate), BOUNCE_RATE_ALL_TIME_CRITICAL)>>
  ELSE IF RateAbove(m.all.rate, BOUNCE_RATE_ALL_TIME_WARNING)
  THEN <<AlertLine("WARNING", "All-Time", Pct2(m.all.rate), BOUNCE_RATE_ALL_TIME_WARNING)>>
  ELSE <<>>

\* AlertsRecent chained to the all-time check with "elif": skipped when that check fired
AlertsRecentElif(m) ==
  IF AlertsAllTime(m) # <<>> THEN <<>>
  ELSE IF m.recent_bounces_16m_count > 0
  THEN <<AlertLine("INFO", "16-Minutes", m.recent_bounces_16m_count, 0)>>
  ELSE <<>>

\* the recent bounces check (16 minutes)
AlertsRecent(m) ==
  IF m.recent_bounces_16m_count > 0
  THEN <<AlertLine("INFO", "16-Minutes", m.recent_bounces_16m_count, 0)>>
  ELSE <<>>

\* AlertsOf with the recent bounces check made first
AlertsOfRecentFirst(m) == AlertsRecent(m) \o Alerts7d(m) \o AlertsAllTime(m)

\* the alerts list, in the order the checks append to it
AlertsOf(m) == Alerts7d(m) \o AlertsAllTime(m) \o AlertsRecent(m)

----------------------------------------------------------------------------
\* send_alert_email

\* the report: header, alert lines, the three metric summaries, recent bounces
BodyText(m, al) ==
  [header |-> "ACHTUNG: Plunk Bounce-Rate Warnung/Critical",
   alerts |-> al,
   line_7d |-> <<Pct2(m.d7.rate), m.d7.bounced, m.d7.sent>>,
   line_all |-> <<Pct2(m.all.rate), m.all.bounced, m.all.sent>>,
   line_16m |-> m.recent_bounces_16m_count,
   bounces |-> [i \in 1..Len(m.recent_bounces) |->
                  <<m.recent_bounces[i].data_bounced_at,
                    m.recent_bounces[i].contact_email,
                    m.recent_bounces[i].data_subject>>]]

\* body_text.replace("\n", "<br>")
HtmlBody(text) == [br_joined |-> text]

\* recipient.strip()
Strip(r) ==
  CASE r = " " -> ""
    [] r = " b@x" -> "b@x"
    [] OTHER -> r

\* the entries a recipient list can hold at position i: an address, padded
\* or not, or a blank entry
RecipientEntries(i) == IF i % 2 = 1 THEN {"a@x", " "} ELSE {" b@x", ""}

\* the lists ALERT_EMAIL_RECIPIENTS can be: split(",") yields at least one entry
RecipientLists ==
  UNION {{l \in [1..n -> {"a@x", " ", " b@x", ""}] : \A i \in 1..n : l[i] \in RecipientEntries(i)}
         : n \in 1..MaxRecipients}

\* the payload posted for one recipient
Payload(to, text) ==
  [to |-> to, subject |-> "Plunk Alert: Bounce Rates Exceeded",
   body |-> HtmlBody(text), from |-> "ALERT_FROM_EMAIL"]

----------------------------------------------------------------------------
\* The state machine.

OK200 == <<"OK", 200>>

\* return str(e), 500
Err500(msg) == <<msg, 500>>

\* one request or statement issued to an external system
Call(op) == [op |-> op]

\* one requests.post of the recipient loop; raised tells whether it raised
SendCall(payload, raised) == [op |-> "POST send", payload |-> payload, raised |-> raised]

\* a local the run has not assigned yet
Unset == <<>>

\* the locals of a run that has not computed them yet
NoLocals ==
  /\ row_7d' = Unset
  /\ row_all' = Unset
  /\ bounces' = <<>>
  /\ metrics' = Unset
  /\ alerts' = <<>>
  /\ body_text' = Unset
  /\ idx' = 0

\* get_bq_client(): the global client is created on first use and kept
get_bq_client == bq_client' = TRUE

Config == <<plunk_key, recipients>>
Locals == <<row_7d, row_all, bounces, metrics, alerts, body_text, idx>>

\* ALERT_EMAIL_RECIPIENTS = "a@x,": one address and a blank entry
SampleRecipients == <<"a@x", "">>

\* The pipeline runs under one recipient configuration; every recipient list
\* is covered where the notifier is the subject (InitDecide).
Init ==
  /\ plunk_key \in {"", "key"}
  /\ recipients = SampleRecipients
  /\ bq_client = FALSE
  /\ store = EmptyBag
  /\ now = Now0
  /\ pc = "idle"
  /\ events = <<>>
  /\ row_7d = Unset
  /\ row_all = Unset
  /\ bounces = <<>>
  /\ metrics = Unset
  /\ alerts = <<>>
  /\ body_text = Unset
  /\ idx = 0
  /\ calls = <<>>
  /\ response = Unset

\* the invocation is over: its locals are gone and the next request can be served
Finish ==
  /\ pc = "returned"
  /\ NoLocals
  /\ events' = <<>>
  /\ calls' = <<>>
  /\ response' = Unset
  /\ pc' = "idle"
  /\ UNCHANGED <<Config, bq_client, store, now>>

\* the serving instance is replaced between two requests: the module is
\* loaded again and the global client is None
ColdStart ==
  /\ pc = "idle"
  /\ bq_client
  /\ bq_client' = FALSE
  /\ UNCHANGED <<Config, store, now, pc, events, Locals, calls, response>>

\* time passes
Tick ==
  /\ now < Now0 + MaxClock
  /\ now' = now + 1
  /\ UNCHANGED <<plunk_key, recipients, bq_client, store, pc, events, row_7d, row_all, bounces,
                 metrics, alerts, body_text, idx, calls, response>>

\* a request arrives and get_plunk_key raises RuntimeError
FetchNoKey ==
  /\ pc = "idle"
  /\ plunk_key = ""
  /\ calls' = <<>>
  /\ response' = Err500("Missing PLUNK_API_KEY env var")
  /\ pc' = "returned"
  /\ UNCHANGED <<Config, bq_client, store, now, events, Locals>>

\* a request arrives and requests.get / raise_for_status / resp.json raises
FetchFails ==
  /\ pc = "idle"
  /\ plunk_key # ""
  /\ calls' = <<Call("GET events")>>
  /\ response' = Err500("GET events failed")
  /\ pc' = "returned"
  /\ UNCHANGED <<Config, bq_client, store, now, events, Locals>>

\* a request arrives and fetch_plunk_events returns a batch
FetchOk ==
  /\ pc = "idle"
  /\ plunk_key # ""
  /\ \E b \in Batches : events' = b
  /\ calls' = <<Call("GET events")>>
  /\ pc' = "fetched"
  /\ UNCHANGED <<Config, bq_client, store, now, Locals, response>>

\* UpsertEmpty with the client acquired before the batch is tested
UpsertEmptyAcquiresClient ==
  /\ pc = "fetched"
  /\ events = <<>>
  /\ pc' = "upserted"
  /\ get_bq_client
  /\ UNCHANGED <<Config, store, now, events, Locals, calls, response>>

\* upsert_events_to_bq(events) with no events: returns at once
UpsertEmpty ==
  /\ pc = "fetched"
  /\ events = <<>>
  /\ pc' = "upserted"
  /\ UNCHANGED <<Config, bq_client, store, now, events, Locals, calls, response>>

\* building the parameters raises: no statement is issued
UpsertNormalizeRaises ==
  /\ pc = "fetched"
  /\ events # <<>>
  /\ \E i \in 1..Len(events) : NormalizeRaises(events[i])
  /\ response' = Err500(UpsertError(store, events))
  /\ pc' = "returned"
  /\ get_bq_client
  /\ UNCHANGED <<Config, store, now, events, Locals, calls>>

\* UpsertMergeFails on a store that applies the source rows one by one: the
\* first row is written before the job fails
UpsertMergeFailsPartial ==
  /\ pc = "fetched"
  /\ events # <<>>
  /\ ~ \E i \in 1..Len(events) : NormalizeRaises(events[i])
  /\ calls' = Append(calls, Call("MERGE"))
  /\ \E msg \in {UpsertError(store, events), "MERGE failed"} :
       /\ msg # NULL
       /\ response' = Err500(msg)
  /\ store' = Merge(store, SubSeq(Params(events), 1, 1))
  /\ pc' = "returned"
  /\ get_bq_client
  /\ UNCHANGED <<Config, now, events, Locals>>

\* the MERGE statement is issued and the job fails: by the statement itself
\* (a target row matched twice) or by the warehouse
UpsertMergeFails ==
  /\ pc = "fetched"
  /\ events # <<>>
  /\ ~ \E i \in 1..Len(events) : NormalizeRaises(events[i])
  /\ calls' = Append(calls, Call("MERGE"))
  /\ \E msg \in {UpsertError(store, events), "MERGE failed"} :
       /\ msg # NULL
       /\ response' = Err500(msg)
  /\ pc' = "returned"
  /\ get_bq_client
  /\ UNCHANGED <<Config, store, now, events, Locals>>

\* the MERGE statement is issued and completes
UpsertOk ==
  /\ pc = "fetched"
  /\ events # <<>>
  /\ UpsertError(store, events) = NULL
  /\ calls' = Append(calls, Call("MERGE"))
  /\ store' = upsert_events_to_bq(store, events)
  /\ pc' = "upserted"
  /\ get_bq_client
  /\ UNCHANGED <<Config, now, events, Locals, response>>

\* client.query(query_7d).result()
RunQuery7d ==
  /\ pc = "upserted"
  /\ calls' = Append(calls, Call("query_7d"))
  /\ row_7d' = Query7d(store, now)
  /\ pc' = "q_all"
  /\ get_bq_client
  /\ UNCHANGED <<Config, store, now, events, row_all, bounces, metrics, alerts,
                 body_text, idx, response>>

\* client.query(query_all).result()
RunQueryAll ==
  /\ pc = "q_all"
  /\ calls' = Append(calls, Call("query_all"))
  /\ row_all' = QueryAll(store)
  /\ pc' = "q_bounces"
  /\ UNCHANGED <<Config, bq_client, store, now, events, row_7d, bounces, metrics, alerts,
                 body_text, idx, response>>

\* client.query(query_bounces).result()
RunQueryBounces ==
  /\ pc = "q_bounces"
  /\ calls' = Append(calls, Call("query_bounces"))
  /\ bounces' \in QueryBounces(store)
  /\ pc' = "q_16m"
  /\ UNCHANGED <<Config, bq_client, store, now, events, row_7d, row_all, metrics, alerts,
                 body_text, idx, response>>

\* client.query(query_16m).result() and the returned dict
RunQuery16m ==
  /\ pc = "q_16m"
  /\ calls' = Append(calls, Call("query_16m"))
  /\ metrics' = MetricsOf(row_7d, row_all, bounces, Query16m(store, now))
  /\ pc' = "analyzed"
  /\ UNCHANGED <<Config, bq_client, store, now, events, row_7d, row_all, bounces, alerts,
                 body_text, idx, response>>

\* the query the run is about to issue
NextQuery ==
  CASE pc = "upserted" -> "query_7d"
    [] pc = "q_all" -> "query_all"
    [] pc = "q_bounces" -> "query_bounces"
    [] pc = "q_16m" -> "query_16m"

\* the message of the exception a failed query raises
QueryErrorOf(q) ==
  CASE q = "query_7d" -> "query_7d failed"
    [] q = "query_all" -> "query_all failed"
    [] q = "query_bounces" -> "query_bounces failed"
    [] q = "query_16m" -> "query_16m failed"

\* QueryFails with the exception swallowed by a handler that reports success
QueryFailsReturnsOk ==
  /\ pc \in {"upserted", "q_all", "q_bounces", "q_16m"}
  /\ calls' = Append(calls, Call(NextQuery))
  /\ response' = OK200
  /\ pc' = "returned"
  /\ get_bq_client
  /\ UNCHANGED <<Config, store, now, events, Locals>>

\* any of the four queries raises
QueryFails ==
  /\ pc \in {"upserted", "q_all", "q_bounces", "q_16m"}
  /\ calls' = Append(calls, Call(NextQuery))
  /\ response' = Err500(QueryErrorOf(NextQuery))
  /\ pc' = "returned"
  /\ get_bq_client
  /\ UNCHANGED <<Config, store, now, events, Locals>>

\* 3. Check Thresholds
Decide ==
  /\ pc = "analyzed"
  /\ alerts' = AlertsOf(metrics)
  /\ pc' = "decided"
  /\ UNCHANGED <<Config, bq_client, store, now, events, row_7d, row_all, bounces, metrics,
                 body_text, idx, calls, response>>

\* else: print("No new alerts."); return "OK", 200
NoAlerts ==
  /\ pc = "decided"
  /\ alerts = <<>>
  /\ response' = OK200
  /\ pc' = "returned"
  /\ UNCHANGED <<Config, bq_client, store, now, events, Locals, calls>>

\* Notify without the "if alerts:" test
NotifyAlways ==
  /\ pc = "decided"
  /\ calls' = Append(calls, Call("send_alert_email"))
  /\ body_text' = BodyText(metrics, alerts)
  /\ idx' = 1
  /\ pc' = "sending"
  /\ UNCHANGED <<Config, bq_client, store, now, events, row_7d, row_all, bounces, metrics,
                 alerts, response>>

\* if alerts: send_alert_email(metrics, alerts) renders the report
Notify ==
  /\ pc = "decided"
  /\ alerts # <<>>
  /\ calls' = Append(calls, Call("send_alert_email"))
  /\ body_text' = BodyText(metrics, alerts)
  /\ idx' = 1
  /\ pc' = "sending"
  /\ UNCHANGED <<Config, bq_client, store, now, events, row_7d, row_all, bounces, metrics,
                 alerts, response>>

\* a blank recipient: continue
SendSkip ==
  /\ pc = "sending"
  /\ idx <= Len(recipients)
  /\ Strip(recipients[idx]) = ""
  /\ idx' = idx + 1
  /\ UNCHANGED <<Config, bq_client, store, now, pc, events, row_7d, row_all, bounces, metrics,
                 alerts, body_text, calls, response>>

\* SendOne without the try/except around requests.post: the exception leaves
\* the loop and the run
SendOneUncaught ==
  /\ pc = "sending"
  /\ idx <= Len(recipients)
  /\ Strip(recipients[idx]) # ""
  /\ \E raised \in BOOLEAN :
       /\ calls' = Append(calls, SendCall(Payload(Strip(recipients[idx]), body_text), raised))
       /\ IF raised
          THEN pc' = "returned" /\ response' = Err500("POST send failed") /\ idx' = idx
          ELSE pc' = pc /\ response' = response /\ idx' = idx + 1
  /\ UNCHANGED <<Config, bq_client, store, now, events, row_7d, row_all, bounces, metrics,
                 alerts, body_text>>

\* SendOne with a retry: a send that raised is attempted again
SendOneRetry ==
  /\ pc = "sending"
  /\ idx <= Len(recipients)
  /\ Strip(recipients[idx]) # ""
  /\ \E raised \in BOOLEAN :
       /\ calls' = Append(calls, SendCall(Payload(Strip(recipients[idx]), body_text), raised))
       /\ idx' = IF raised THEN idx ELSE idx + 1
  /\ UNCHANGED <<Config, bq_client, store, now, pc, events, row_7d, row_all, bounces, metrics,
                 alerts, body_text, response>>

\* requests.post returns (whatever the status of the reply) or raises; the
\* exception is caught and printed
SendOne ==
  /\ pc = "sending"
  /\ idx <= Len(recipients)
  /\ Strip(recipients[idx]) # ""
  /\ \E raised \in BOOLEAN :
       calls' = Append(calls, SendCall(Payload(Strip(recipients[idx]), body_text), raised))
  /\ idx' = idx + 1
  /\ UNCHANGED <<Config, bq_client, store, now, pc, events, row_7d, row_all, bounces, metrics,
                 alerts, body_text, response>>

\* the loop is over: send_alert_email returns and the run returns "OK", 200
ReturnOk ==
  /\ pc = "sending"
  /\ idx > Len(recipients)
  /\ response' = OK200
  /\ pc' = "returned"
  /\ UNCHANGED <<Config, bq_client, store, now, events, Locals, calls>>

Next ==
  \/ ColdStart
  \/ Tick
  \/ FetchNoKey
  \/ FetchFails
  \/ FetchOk
  \/ UpsertEmpty
  \/ UpsertNormalizeRaises
  \/ UpsertMergeFails
  \/ UpsertOk
  \/ RunQuery7d
  \/ RunQueryAll
  \/ RunQueryBounces
  \/ RunQuery16m
  \/ QueryFails
  \/ Decide
  \/ NoAlerts
  \/ Notify
  \/ SendSkip
  \/ SendOne
  \/ ReturnOk
  \/ Finish

Spec == Init /\ [][Next]_vars

----------------------------------------------------------------------------
\* Runs whose batches hold pairwise distinct ids.

\* the ids of a batch are pairwise distinct
DistinctIds(evs) == \A i, j \in 1..Len(evs) : evs[i].id = evs[j].id => i = j

\* fetch_plunk_events returns a batch without repeated ids
FetchOkDistinct == FetchOk /\ DistinctIds(events')

NextDistinct ==
  \/ ColdStart
  \/ Tick
  \/ FetchNoKey
  \/ FetchFails
  \/ FetchOkDistinct
  \/ UpsertEmpty
  \/ UpsertNormalizeRaises
  \/ UpsertMergeFails
  \/ UpsertOk
  \/ RunQuery7d
  \/ RunQueryAll
  \/ RunQueryBounces
  \/ RunQuery16m
  \/ QueryFails
  \/ Decide
  \/ NoAlerts
  \/ Notify
  \/ SendSkip
  \/ SendOne
  \/ ReturnOk
  \/ Finish

SpecDistinct == Init /\ [][NextDistinct]_vars

----------------------------------------------------------------------------
\* The alert decision and the notifier on metrics snapshots given directly:
\* the run has fetched an empty batch and its four queries have returned.

\* a recent_bounces list of a table that holds bounce rows
SampleBounces ==
  <<[contact_email |-> "x2", data_subject |-> "s2", data_bounced_at |-> "T2"]>>

InitDecide ==
  /\ plunk_key = "key"
  /\ recipients \in RecipientLists
  /\ bq_client = TRUE
  /\ store = EmptyBag
  /\ now = Now0
  /\ pc = "analyzed"
  /\ events = <<>>
  /\ \E s7 \in 0..MaxSent, b7 \in 0..MaxBounced :
       row_7d = [sent_count |-> s7, bounced_count |-> b7]
  /\ \E sall \in row_7d.sent_count..MaxSent, ball \in row_7d.bounced_count..MaxBounced :
       row_all = [sent_count |-> sall, bounced_count |-> ball]
  /\ bounces \in IF row_all.bounced_count > 0 THEN {SampleBounces} ELSE {<<>>, SampleBounces}
  /\ \E b16 \in 0..row_7d.bounced_count :
       metrics = MetricsOf(row_7d, row_all, bounces, b16)
  /\ alerts = <<>>
  /\ body_text = Unset
  /\ idx = 0
  /\ calls = <<Call("GET events"), Call("query_7d"), Call("query_all"),
               Call("query_bounces"), Call("query_16m")>>
  /\ response = Unset

NextDecide ==
  \/ Decide
  \/ NoAlerts
  \/ Notify
  \/ SendSkip
  \/ SendOne
  \/ ReturnOk

SpecDecide == InitDecide /\ [][NextDecide]_vars

----------------------------------------------------------------------------
\* The metrics queries and what follows them, over larger tables: earlier
\* runs have merged a batch of bounce and sent events, the current run has
\* fetched an empty batch and is about to compute the metrics.

\* most bounce events and most sent events of the batch that built the table
MaxBounceRows == 22
MaxSentRows == 10

\* ids (and email ids, and subjects) of the bounce events
BounceIds ==
  <<"b01", "b02", "b03", "b04", "b05", "b06", "b07", "b08", "b09", "b10", "b11", "b12", "b13",
    "b14", "b15", "b16", "b17", "b18", "b19", "b20", "b21", "b22", "b23", "b24">>

\* ids (and email ids) of the sent events
SentIds ==
  <<"s01", "s02", "s03", "s04", "s05", "s06", "s07", "s08", "s09", "s10", "s11", "s12">>

\* a bounce record; id is also its subject, so no two have the same report line
BounceEvent(id, mail, at) ==
  [id |-> id, name |-> "email.bounce", projectId |-> "p1", contactId |-> "c1",
   emailId |-> mail, createdAt |-> at,
   data |-> [subject |-> id, bouncedAt |-> at, bounceType |-> "hard"],
   contact |-> [email |-> "x1"]]

\* a sent record
SentEvent(id, mail, at) ==
  [id |-> id, name |-> "email.sent", projectId |-> "p1", contactId |-> "c1",
   emailId |-> mail, createdAt |-> at,
   data |-> [subject |-> id], contact |-> [email |-> "x1"]]

\* The batch: nb bounces of distinct mails at the first nb timestamps; when
\* tie > 0 a second bounce of mail number tie at the same timestamp; when old,
\* a bounce at T0; ns sent events of distinct mails at T0; when resent, a
\* second sent event of the first mail at T2.
TableBatch(nb, tie, old, ns, resent) ==
  [i \in 1..nb |-> BounceEvent(BounceIds[i], BounceIds[i], Stamps[i])]
  \o (IF tie > 0 THEN <<BounceEvent("btie", BounceIds[tie], Stamps[tie])>> ELSE <<>>)
  \o (IF old THEN <<BounceEvent("bold", "bold", "T0")>> ELSE <<>>)
  \o [j \in 1..ns |-> SentEvent(SentIds[j], SentIds[j], "T0")]
  \o (IF resent THEN <<SentEvent("sagain", SentIds[1], "T2")>> ELSE <<>>)

InitTable ==
  /\ plunk_key = "key"
  /\ recipients = SampleRecipients
  /\ bq_client = FALSE
  /\ \E nb \in 0..MaxBounceRows, tie \in {0, 1, BouncesLimit}, old \in BOOLEAN,
        ns \in 0..MaxSentRows, resent \in BOOLEAN :
       /\ tie <= nb
       /\ resent => ns >= 1
       /\ store = Merge(EmptyBag, Params(TableBatch(nb, tie, old, ns, resent)))
  /\ now = Now0
  /\ pc = "upserted"
  /\ events = <<>>
  /\ row_7d = Unset
  /\ row_all = Unset
  /\ bounces = <<>>
  /\ metrics = Unset
  /\ alerts = <<>>
  /\ body_text = Unset
  /\ idx = 0
  /\ calls = <<Call("GET events")>>
  /\ response = Unset

NextTable ==
  \/ Tick
  \/ RunQuery7d
  \/ RunQueryAll
  \/ RunQueryBounces
  \/ RunQuery16m
  \/ QueryFails
  \/ Decide
  \/ NoAlerts
  \/ Notify
  \/ SendSkip
  \/ SendOne
  \/ ReturnOk

SpecTable == InitTable /\ [][NextTable]_vars

----------------------------------------------------------------------------
\* Properties.

\* the rows of table T whose id is i
RowsWithId(T, i) == BagCardinality([r \in {x \in BagToSet(T) : x.id = i} |-> T[r]])

\* C1: after any sequence of serialized runs whose batches each hold pairwise
\* distinct ids (different runs may bring the same ids again), the table
\* holds at most one row per id.
C1_OneRowPerId == \A r \in BagToSet(store) : RowsWithId(store, r.id) = 1

\* a second run has merged an id that a first run had inserted, beside another row
C1_Witness ==
  /\ pc = "upserted"
  /\ BagCardinality(store) = 2
  /\ \E r \in BagToSet(store) :
       r.id = "e1" /\ r.created_at = "T0" /\ r.name = "email.bounce"

\* C2: merging is idempotent: for the table of any reachable state and any
\* batch a run is about to merge, upsert_events_to_bq applied twice in a row
\* leaves the table exactly as applying it once does.
C2_Idempotent ==
  pc = "fetched" =>
    upsert_events_to_bq(upsert_events_to_bq(store, events), events)
      = upsert_events_to_bq(store, events)

\* a full batch is about to be merged, without error, into a table that a
\* merge of the same batch has already brought to its result
C2_Witness ==
  /\ pc = "fetched"
  /\ Len(events) = MaxBatch
  /\ UpsertError(store, events) = NULL
  /\ \A i \in 1..Len(events) :
       \E r \in BagToSet(store) : r.raw_json = JsonDumps(events[i])
  /\ upsert_events_to_bq(store, events) = store

\* the columns the MERGE never writes on a stored row
KeptColumns(r) ==
  <<r.id, r.project_id, r.created_at, r.timestamp, r.data_from, r.data_subject,
    r.data_template_id, r.data_message_id, r.contact_email>>

\* the columns the MERGE sets from the incoming row
SetColumns(r) ==
  <<r.name, r.contact_id, r.email_id, r.data_bounced_at, r.data_bounce_type, r.raw_json>>

\* <<id, project_id, created_at>> of the rows of T with id i
FirstWritten(T, i) ==
  {<<r.id, r.project_id, r.created_at>> : r \in {x \in BagToSet(T) : x.id = i}}

\* C3: a merge of an event whose id is stored sets exactly name, contact_id,
\* email_id, data_bounced_at, data_bounce_type and raw_json of that row to the
\* incoming values and keeps every other column; and across every step id,
\* project_id and created_at of the rows of a stored id stay what they were.
C3_UpdateFrame ==
  [][ /\ \A r \in BagToSet(store) :
           FirstWritten(store', r.id) = FirstWritten(store, r.id)
      /\ (pc = "fetched" /\ pc' = "upserted") =>
           \A i \in 1..Len(events) :
             LET s == Normalize(events[i]) IN
               \A t \in BagToSet(store) :
                 t.id = s.id =>
                   /\ \E u \in BagToSet(store') :
                        KeptColumns(u) = KeptColumns(t) /\ SetColumns(u) = SetColumns(s)
                   /\ \A u \in BagToSet(store') :
                        u.id = s.id =>
                          /\ SetColumns(u) = SetColumns(s)
                          /\ \E t2 \in BagToSet(store) : KeptColumns(u) = KeptColumns(t2)
    ]_vars

\* a stored row that a later merge updated: the kept columns differ from the
\* payload last merged into it
C3_Witness ==
  /\ pc = "upserted"
  /\ \E r \in BagToSet(store) :
       /\ r.raw_json = JsonDumps(RawE1Bounce)
       /\ r.created_at = RawE1Sent.createdAt
       /\ r.project_id = RawE1Sent.projectId
       /\ r.contact_email = RawE1Sent.contact.email
       /\ r.name = RawE1Bounce.name
       /\ r.data_bounced_at = RawE1Bounce.data.bouncedAt

\* the row of e1 that the "sent" record first wrote and into which a later
\* run merged the "bounce" record of the same email_id
SentThenBounced(r) ==
  /\ r.id = RawE1Sent.id
  /\ r.created_at = RawE1Sent.createdAt
  /\ r.raw_json = JsonDumps(RawE1Bounce)

\* C4: after a run merged e1 as "email.sent" with email_id m1 and a later run
\* merged e1 as "email.bounce" with email_id m1 and bouncedAt T, the stored
\* row of e1 has name "email.bounce" and data_bounced_at T, and the metrics
\* count m1 once as sent and once as bounced in every window covering the row.
C4_SentThenBounceCounted ==
  \A r \in BagToSet(store) :
    SentThenBounced(r) =>
      /\ r.name = "email.bounce"
      /\ r.email_id = RawE1Sent.emailId
      /\ r.data_bounced_at = RawE1Bounce.data.bouncedAt
      /\ pc = "analyzed" =>
           /\ metrics.all.sent >= 1
           /\ metrics.all.bounced >= 1
           /\ BagCardinality(store) = 1 =>
                metrics.all.sent = 1 /\ metrics.all.bounced = 1
           /\ InWindow(r, now, Window7d) =>
                metrics.d7.sent >= 1 /\ metrics.d7.bounced >= 1

\* the part of C4 about the stored row alone
C4_RowPart ==
  \A r \in BagToSet(store) :
    SentThenBounced(r) =>
      /\ r.name = "email.bounce"
      /\ r.email_id = RawE1Sent.emailId
      /\ r.data_bounced_at = RawE1Bounce.data.bouncedAt
      /\ pc = "analyzed" => metrics.all.bounced >= 1

\* the message BigQuery gives when a target row is matched by several source rows
MatchError == "UPDATE/MERGE must match at most one source row for each target row"

\* C5: a batch that holds the same id more than once is merged without
\* error, and afterwards the table holds exactly one row for each of its ids,
\* whether or not the id was stored before.
C5_DuplicatesTolerated ==
  (~DistinctIds(events) /\ \A i \in 1..Len(events) : ~NormalizeRaises(events[i])) =>
    /\ pc = "returned" => response # Err500(MatchError)
    /\ pc = "upserted" => \A i \in 1..Len(events) : RowsWithId(store, events[i].id) = 1

\* the severities of the alert lines of one axis, in order
SevsOf(axis) ==
  LET on(a) == a.axis = axis
      sel == SelectSeq(alerts, on)
  IN [i \in 1..Len(sel) |-> sel[i].severity]

\* what the rule table gives for a rate: thresholds in thousandths
Tier(rate, crit, warn) ==
  IF rate.num * 1000 > crit * rate.den THEN <<"CRITICAL">>
  ELSE IF rate.num * 1000 > warn * rate.den THEN <<"WARNING">>
  ELSE <<>>

\* the run has decided its alerts
Decided == pc \in {"decided", "sending"} \/ (pc = "returned" /\ response = OK200)

\* C6: for the 7-day axis (0.075 / 0.05) and the all-time axis (0.06 / 0.04)
\* the alerts hold at most one line: CRITICAL when the rate exceeds the
\* critical threshold, else WARNING when it exceeds the warning threshold,
\* else none; each axis depends on its own rate only.
C6_AlertTiering ==
  Decided =>
    /\ SevsOf("7-Day") = Tier(metrics.d7.rate, 75, 50)
    /\ SevsOf("All-Time") = Tier(metrics.all.rate, 60, 40)

\* the 7-day axis warns while the all-time axis is critical
C6_Witness ==
  /\ pc = "returned"
  /\ SevsOf("7-Day") = <<"WARNING">>
  /\ SevsOf("All-Time") = <<"CRITICAL">>

\* C7: the alerts hold the INFO line of the recent-burst axis exactly when
\* recent_bounces_16m_count > 0, whatever the two rate axes decide.
C7_RecentBurst ==
  Decided =>
    SevsOf("16-Minutes") =
      (IF metrics.recent_bounces_16m_count > 0 THEN <<"INFO">> ELSE <<>>)

\* the INFO line beside a critical 7-day and a warning all-time line
C7_Witness ==
  /\ pc = "returned"
  /\ SevsOf("7-Day") = <<"CRITICAL">>
  /\ SevsOf("All-Time") = <<"WARNING">>
  /\ SevsOf("16-Minutes") = <<"INFO">>

\* how many calls of the current run are op
CountOp(op) == Cardinality({i \in 1..Len(calls) : calls[i].op = op})

\* C8: a run invokes the notifier and posts mail only if its alerts are not
\* empty; with no threshold exceeded and no recent bounce the alerts are
\* empty; a run that returns success invoked the notifier exactly once when
\* its alerts are not empty, and never otherwise.
C8_SendOnlyOnAlerts ==
  /\ (CountOp("send_alert_email") + CountOp("POST send") > 0) => alerts # <<>>
  /\ CountOp("send_alert_email") <= 1
  /\ pc = "sending" => CountOp("send_alert_email") = 1
  /\ Decided =>
       /\ alerts = <<>> <=>
            /\ Tier(metrics.d7.rate, 75, 50) = <<>>
            /\ Tier(metrics.all.rate, 60, 40) = <<>>
            /\ metrics.recent_bounces_16m_count = 0
       /\ pc = "returned" =>
            CountOp("send_alert_email") = (IF alerts = <<>> THEN 0 ELSE 1)

\* a run over a table with rows returned success without alerts
C8_Witness ==
  /\ pc = "returned"
  /\ response = OK200
  /\ alerts = <<>>
  /\ events # <<>>
  /\ BagCardinality(store) > 0
  /\ CountOp("POST send") = 0

\* the mail requests of the current run, in order
Posts ==
  LET isPost(c) == c.op = "POST send"
  IN SelectSeq(calls, isPost)

\* the stripped non-blank recipients among the first n configured ones
NonBlankUpTo(n) ==
  LET nonBlank(r) == Strip(r) # ""
      sel == SelectSeq(SubSeq(recipients, 1, n), nonBlank)
  IN [i \in 1..Len(sel) |-> Strip(sel[i])]

\* C9: whatever sends raise, the loop attempts one send for every non-blank
\* recipient in turn, each with the same report body, and the run returns
\* success.
C9_RecipientIsolation ==
  /\ pc = "sending" =>
       [i \in 1..Len(Posts) |-> Posts[i].payload.to] = NonBlankUpTo(idx - 1)
  /\ (pc = "returned" /\ CountOp("send_alert_email") = 1) =>
       /\ response = OK200
       /\ [i \in 1..Len(Posts) |-> Posts[i].payload.to] = NonBlankUpTo(Len(recipients))
  /\ \A i \in 1..Len(Posts) :
       Posts[i].payload.body = HtmlBody(BodyText(metrics, alerts))

\* the first of two sends raised, the second was made, the run returned success
C9_Witness ==
  /\ pc = "returned"
  /\ response = OK200
  /\ Len(Posts) = 2
  /\ Posts[1].raised
  /\ ~Posts[2].raised
  /\ Posts[2].payload.body = Posts[1].payload.body

\* the operations of the current run, in order
Ops == [i \in 1..Len(calls) |-> calls[i].op]

\* fetch, merge and the four queries of the current run, in order
PipelineOps ==
  LET notSend(o) == o \notin {"send_alert_email", "POST send"}
  IN SelectSeq(Ops, notSend)

\* fetch, merge (for a non-empty batch) and the four queries
FullPipeline(evs) ==
  <<"GET events">> \o (IF evs = <<>> THEN <<>> ELSE <<"MERGE">>)
    \o <<"query_7d", "query_all", "query_bounces", "query_16m">>

IsPrefix(a, b) == Len(a) <= Len(b) /\ SubSeq(b, 1, Len(a)) = a

\* the step a failure message names
FailedOp(msg) ==
  CASE msg = "Missing PLUNK_API_KEY env var" -> "none"
    [] msg = "GET events failed" -> "GET events"
    [] msg = "'NoneType' object has no attribute 'get'" -> "GET events"
    [] msg = "MERGE failed" -> "MERGE"
    [] msg = MatchError -> "MERGE"
    [] msg = "query_7d failed" -> "query_7d"
    [] msg = "query_all failed" -> "query_all"
    [] msg = "query_bounces failed" -> "query_bounces"
    [] msg = "query_16m failed" -> "query_16m"
    [] OTHER -> "unknown"

\* C10: a failure of the fetch, of the merge or of a metrics query ends the
\* run at that step: the failed operation is the last one issued, no metrics,
\* alerts or sends follow, and the run returns 500 with the failure's message;
\* the run returns 200 only if fetch, merge and the four queries completed.
C10_AbortOnFailure ==
  /\ IsPrefix(PipelineOps, FullPipeline(events))
  /\ (CountOp("send_alert_email") > 0 \/ alerts # <<>> \/ metrics # Unset) =>
       PipelineOps = FullPipeline(events)
  /\ pc = "returned" =>
       /\ response[2] \in {200, 500}
       /\ response[2] = 200 =>
            /\ response = OK200
            /\ PipelineOps = FullPipeline(events)
            /\ metrics # Unset
       /\ response[2] = 500 =>
            /\ metrics = Unset
            /\ alerts = <<>>
            /\ CountOp("send_alert_email") + CountOp("POST send") = 0
            /\ FailedOp(response[1]) # "unknown"
            /\ IF calls = <<>> THEN FailedOp(response[1]) = "none"
               ELSE FailedOp(response[1]) = calls[Len(calls)].op

\* the third query failed after a merge that wrote rows
C10_Witness ==
  /\ pc = "returned"
  /\ response = Err500("query_bounces failed")
  /\ events # <<>>
  /\ BagCardinality(store) > 0
  /\ Ops = <<"GET events", "MERGE", "query_7d", "query_all", "query_bounces">>

----------------------------------------------------------------------------
\* Properties of the merge as one statement, of the normalizer, of the
\* metrics queries and of the run as a whole.

\* C11: a run applies its non-empty batch all-or-nothing with one MERGE
\* statement: the step that leaves upsert_events_to_bq either completes with
\* the table holding the merge of every event of the batch, or fails with the
\* table exactly as before; a run never issues a second MERGE.
C11_AllOrNothing ==
  [][ /\ CountOp("MERGE")' <= 1
      /\ (pc = "fetched" /\ events # <<>> /\ pc' # pc) =>
           \/ /\ pc' = "upserted"
              /\ CountOp("MERGE")' = 1
              /\ store' = Merge(store, Params(events))
              /\ \A i \in 1..Len(events) :
                   \E r \in BagToSet(store') :
                     r.id = events[i].id /\ r.raw_json = JsonDumps(events[i])
           \/ /\ pc' = "returned"
              /\ response'[2] = 500
              /\ store' = store
    ]_vars

\* the MERGE of a batch of two new events failed and none of them is stored
C11_Witness ==
  /\ pc = "returned"
  /\ response = Err500("MERGE failed")
  /\ Len(events) = 2
  /\ DistinctIds(events)
  /\ store # EmptyBag
  /\ \A i \in 1..Len(events) :
       \A r \in BagToSet(store) : r.raw_json # JsonDumps(events[i])

\* C12: upsert_events_to_bq with an empty batch returns without acquiring the
\* client, without issuing a statement and without changing the table.
C12_EmptyBatchNoAccess ==
  [][ (pc = "fetched" /\ events = <<>> /\ pc' # pc) =>
        /\ pc' = "upserted"
        /\ bq_client' = bq_client
        /\ calls' = calls
        /\ store' = store
        /\ response' = response
    ]_vars

\* an empty batch went through upsert_events_to_bq on an instance that has
\* no client yet, over a table that holds rows
C12_Witness ==
  /\ pc = "upserted"
  /\ events = <<>>
  /\ ~bq_client
  /\ store # EmptyBag
  /\ Ops = <<"GET events">>

\* the message of the AttributeError raised by None.get
NoneTypeError == "'NoneType' object has no attribute 'get'"

\* C13: normalizing never fails: no batch, whatever its records' nested
\* objects are (present, absent or null), makes the normalizer raise, and no
\* run ends with the normalizer's error.
C13_NormalizeNeverFails ==
  /\ pc = "fetched" => \A i \in 1..Len(events) : ~NormalizeRaises(events[i])
  /\ pc = "returned" => response # Err500(NoneTypeError)

\* the part of C13 about absent nested objects: the sub-fields are null and
\* raw_json holds the whole payload
C13_AbsentPart ==
  pc = "fetched" =>
    \A i \in 1..Len(events) :
      LET e == events[i]
          row == Normalize(e)
      IN (~NormalizeRaises(e)) =>
           /\ row.raw_json = JsonDumps(e)
           /\ "data" \notin DOMAIN e =>
                /\ row.data_from = NULL /\ row.data_subject = NULL
                /\ row.data_template_id = NULL /\ row.data_message_id = NULL
                /\ row.data_bounced_at = NULL /\ row.data_bounce_type = NULL
           /\ "contact" \notin DOMAIN e => row.contact_email = NULL

\* the rank of a severity: CRITICAL before WARNING before INFO
SeverityRank(sev) ==
  CASE sev = "CRITICAL" -> 3
    [] sev = "WARNING" -> 2
    [] sev = "INFO" -> 1

\* the position of an axis in the order of the checks
AxisRank(axis) ==
  CASE axis = "7-Day" -> 1
    [] axis = "All-Time" -> 2
    [] axis = "16-Minutes" -> 3

\* C14 as stated: in the alerts of a run no message of lower severity
\* precedes a message of higher severity.
C14_SeverityOrdered ==
  Decided =>
    \A i, j \in 1..Len(alerts) :
      i < j => SeverityRank(alerts[i].severity) >= SeverityRank(alerts[j].severity)

\* C14 amended: the alerts are ordered by axis: the 7-day message, then the
\* all-time message, then the INFO message of the recent-burst axis, each
\* present or not; so INFO never precedes a CRITICAL or WARNING message, while
\* a 7-day WARNING precedes an all-time CRITICAL.
C14_AxisOrdered ==
  Decided =>
    /\ \A i, j \in 1..Len(alerts) :
         i < j => AxisRank(alerts[i].axis) < AxisRank(alerts[j].axis)
    /\ \A i, j \in 1..Len(alerts) :
         (i < j /\ alerts[i].severity = "INFO") => alerts[j].severity = "INFO"

\* a 7-day WARNING, then an all-time CRITICAL, then the INFO message
C14_Witness ==
  /\ pc = "decided"
  /\ Len(alerts) = 3
  /\ [i \in 1..3 |-> alerts[i].severity] = <<"WARNING", "CRITICAL", "INFO">>
  /\ [i \in 1..3 |-> alerts[i].axis] = <<"7-Day", "All-Time", "16-Minutes">>

\* the 7-day and the all-time entry of the metrics
RateWindows == {metrics.d7, metrics.all}

\* C15: in both windows the rate is defined (no division by zero), it is 0
\* whenever sent is 0, whatever bounced is, and it is bounced / sent when
\* sent > 0.
C15_RateDefined ==
  metrics # Unset =>
    \A w \in RateWindows :
      /\ w.rate.den > 0
      /\ w.sent = 0 => w.rate.num = 0
      /\ w.sent > 0 => w.rate.num * w.sent = w.bounced * w.rate.den

\* no mail sent in 7 days but bounces counted there; 1 bounce of 10 sent all-time
C15_Witness ==
  /\ pc = "analyzed"
  /\ metrics.d7.sent = 0 /\ metrics.d7.bounced > 0
  /\ metrics.d7.rate = [num |-> 0, den |-> 1]
  /\ metrics.all.sent = 10 /\ metrics.all.bounced = 1
  /\ metrics.all.rate.num * 10 = metrics.all.rate.den

\* the mails with a row of type nm in table T
MailsOf(T, nm) == {r.email_id : r \in {x \in BagToSet(T) : x.name = nm}}

\* the mails with a row of type nm in table T whose timestamp is since or later
MailsSince(T, nm, since) ==
  {m \in MailsOf(T, nm) :
     \E r \in BagToSet(T) :
       r.name = nm /\ r.email_id = m /\ Instant(r.timestamp) >= since}

\* the rows of type nm in table T
RowsOfType(T, nm) == BagCardinality([r \in {x \in BagToSet(T) : x.name = nm} |-> T[r]])

\* C16: each query returns, for its window at the time it runs, the number of
\* distinct email_id values among the rows of the type whose timestamp is
\* >= now - window (all rows of the type for all-time): rows sharing an
\* email_id count once, rows outside the window or of the other type do not
\* count; the metrics carry these counts.
C16_DistinctCounts ==
  [][ /\ (pc = "upserted" /\ pc' = "q_all") =>
           /\ row_7d'.sent_count = Cardinality(MailsSince(store, "email.sent", now - 10080))
           /\ row_7d'.bounced_count = Cardinality(MailsSince(store, "email.bounce", now - 10080))
      /\ (pc = "q_all" /\ pc' = "q_bounces") =>
           /\ row_all'.sent_count = Cardinality(MailsOf(store, "email.sent"))
           /\ row_all'.bounced_count = Cardinality(MailsOf(store, "email.bounce"))
      /\ (pc = "q_16m" /\ pc' = "analyzed") =>
           /\ metrics'.recent_bounces_16m_count
                = Cardinality(MailsSince(store, "email.bounce", now - 16))
           /\ metrics'.d7.sent = row_7d.sent_count
           /\ metrics'.d7.bounced = row_7d.bounced_count
           /\ metrics'.all.sent = row_all.sent_count
           /\ metrics'.all.bounced = row_all.bounced_count
    ]_vars

\* a table in which two sent rows and two bounce rows share their email_id
\* and the sent rows of one mail are older than 7 days
C16_Witness ==
  /\ pc = "analyzed"
  /\ \E r1, r2 \in BagToSet(store) :
       r1 # r2 /\ r1.name = "email.sent" /\ r2.name = "email.sent" /\ r1.email_id = r2.email_id
  /\ \E r1, r2 \in BagToSet(store) :
       r1 # r2 /\ r1.name = "email.bounce" /\ r2.name = "email.bounce"
         /\ r1.email_id = r2.email_id
  /\ metrics.d7.sent = 1
  /\ metrics.all.sent = 2
  /\ RowsOfType(store, "email.sent") = 3
  /\ metrics.all.bounced = RowsOfType(store, "email.bounce") - 1
  /\ metrics.recent_bounces_16m_count < metrics.d7.bounced

\* report entry b shows the columns of row r
Shows(r, b) ==
  /\ r.contact_email = b.contact_email
  /\ r.data_subject = b.data_subject
  /\ r.data_bounced_at = b.data_bounced_at

\* the bounce rows of table T that entry b can come from
ShownRows(T, b) == {r \in BagToSet(T) : r.name = "email.bounce" /\ Shows(r, b)}

\* the timestamp of the row entry b comes from (one row, where the rows
\* differ in their subject)
StampOf(T, b) == Instant((CHOOSE r \in ShownRows(T, b) : TRUE).timestamp)

\* the bounce rows of table T that no entry of res shows
LeftOut(T, res) ==
  {r \in BagToSet(T) :
     r.name = "email.bounce" /\ \A i \in 1..Len(res) : ~Shows(r, res[i])}

\* C17: query_bounces returns entries of bounce rows only, each row at most
\* once, at most 20 and as many as there are up to 20, by timestamp
\* descending, and no bounce row left out is newer than a row returned; the
\* metrics carry this list.
C17_RecentBounces ==
  [][ /\ (pc = "q_bounces" /\ pc' = "q_16m") =>
           /\ Len(bounces') <= 20
           /\ Len(bounces') = Min(20, RowsOfType(store, "email.bounce"))
           /\ \A i \in 1..Len(bounces') : ShownRows(store, bounces'[i]) # {}
           /\ \A i, j \in 1..Len(bounces') : i < j =>
                /\ bounces'[i] # bounces'[j]
                /\ StampOf(store, bounces'[i]) >= StampOf(store, bounces'[j])
           /\ \A r \in LeftOut(store, bounces') :
                \A i \in 1..Len(bounces') :
                  Instant(r.timestamp) <= StampOf(store, bounces'[i])
      /\ (pc = "q_16m" /\ pc' = "analyzed") => metrics'.recent_bounces = bounces
    ]_vars

\* 24 bounce rows, 20 returned; a row left out has the timestamp of the last
\* row returned, and a sent row is as new as the newest bounce
C17_Witness ==
  /\ pc = "q_16m"
  /\ Len(bounces) = 20
  /\ RowsOfType(store, "email.bounce") = 24
  /\ \E r \in LeftOut(store, bounces) :
       Instant(r.timestamp) = StampOf(store, bounces[20])
  /\ \E r \in LeftOut(store, bounces) :
       Instant(r.timestamp) < StampOf(store, bounces[20])
  /\ \E r \in BagToSet(store) :
       r.name = "email.sent" /\ Instant(r.timestamp) >= StampOf(store, bounces[1])

\* the operations a run issues once at most
SingleOps ==
  {"GET events", "MERGE", "query_7d", "query_all", "query_bounces", "query_16m",
   "send_alert_email"}

\* the configured entries that name address a
EntriesFor(a) == {k \in 1..Len(recipients) : Strip(recipients[k]) = a}

\* the sends of the current run to address a
PostsTo(a) == {i \in 1..Len(Posts) : Posts[i].payload.to = a}

\* C18: within one run the fetch, the merge, each metrics query and the
\* notifier are attempted at most once, and a send at most once per
\* configured non-blank recipient, whether the attempt succeeded or failed.
C18_NoRetry ==
  /\ \A op \in SingleOps : CountOp(op) <= 1
  /\ \A i \in 1..Len(Posts) :
       Cardinality(PostsTo(Posts[i].payload.to)) <= Cardinality(EntriesFor(Posts[i].payload.to))
  /\ Len(Posts) <= Len(NonBlankUpTo(Len(recipients)))

\* a run made every operation once, its only send raised, and it returned
C18_Witness ==
  /\ pc = "returned"
  /\ \A op \in SingleOps : CountOp(op) = 1
  /\ Len(Posts) = 1
  /\ Posts[1].raised

\* C19: in the metrics a run computes (the table does not change during the
\* run, the clock may advance between its queries) the windows nest:
\* recent_bounces_16m_count <= 7-day bounced <= all-time bounced, and 7-day
\* sent <= all-time sent.
C19_WindowsNest ==
  metrics # Unset =>
    /\ metrics.recent_bounces_16m_count <= metrics.d7.bounced
    /\ metrics.d7.bounced <= metrics.all.bounced
    /\ metrics.d7.sent <= metrics.all.sent

\* every inclusion is strict, and the clock advanced during the run
C19_Witness ==
  /\ pc = "analyzed"
  /\ now > Now0
  /\ 0 < metrics.recent_bounces_16m_count
  /\ metrics.recent_bounces_16m_count < metrics.d7.bounced
  /\ metrics.d7.bounced < metrics.all.bounced
  /\ 0 < metrics.d7.sent
  /\ metrics.d7.sent < metrics.all.sent

\* the ids of a batch
BatchIds(evs) == {evs[i].id : i \in 1..Len(evs)}

\* the ids stored in table T
StoredIds(T) == {r.id : r \in BagToSet(T)}

\* C20: every step leaves the rows whose id is not in the run's batch as they
\* are, removes no row and no id from the table, and only the merge step of
\* upsert_events_to_bq changes the table at all: the fetch, the metrics
\* queries, the alert decision and the notifier leave it unchanged.
C20_MergeFrame ==
  [][ /\ \A r \in BagToSet(store) :
           r.id \notin BatchIds(events) => CopiesIn(r, store') = CopiesIn(r, store)
      /\ StoredIds(store) \subseteq StoredIds(store')
      /\ BagCardinality(store') >= BagCardinality(store)
      /\ (pc # "fetched" \/ events = <<>>) => store' = store
    ]_vars

\* a merge updated the row of a stored id and left the row of an id that is
\* not in the batch
C20_Witness ==
  /\ pc = "upserted"
  /\ events = <<RawE1Bounce>>
  /\ \E r \in BagToSet(store) : r.id = "e2"
  /\ \E r \in BagToSet(store) :
       r.id = "e1" /\ r.raw_json = JsonDumps(RawE1Bounce) /\ r.created_at = RawE1Sent.createdAt

====
